---------------------------- MODULE Spec2Model ----------------------------
(***************************************************************************)
(* A model of the twlv message envelope (src/message.js) and peer record   *)
(* (src/peer.js).                                                          *)
(*                                                                         *)
(* Buffers are references into a heap of byte regions, so that two fields  *)
(* holding the same Buffer object, or a slice of another buffer, see each  *)
(* other's in-place writes.  Strings are sequences: an address is a        *)
(* sequence of hexadecimal characters, a command a sequence of Unicode     *)
(* code points.  Numbers of the layout are those of the source.            *)
(***************************************************************************)
EXTENDS Integers, Sequences, FiniteSets, TLC

VARIABLES
    heap,   \* the allocated byte regions: a sequence of byte sequences
    msg,    \* slot -> Message object or NoMsg ("m" original, "c" clone, "r" decoded)
    wire,   \* the Buffer last returned by getBuffer, or NoBuf
    hist,   \* the calls made so far, oldest first: [name, slot, id, err, before]
    pc,     \* position of the send/receive task (SpecPipeline)
    made,   \* the fields' values of message "m" when it was constructed
    peer    \* the Peer object, or NoPeer, and the calls made on it (SpecPeer)

vars == <<heap, msg, wire, hist, pc, made, peer>>

----------------------------------------------------------------------------
(* Program constants. *)

MODE_PLAIN == 0
MODE_ENCRYPTED == 1
MODE_SIGNED == 2

\* bytes of an address on the wire (message.js: toString('hex', offset, offset + 10))
AddrLen == 10
\* bytes of the signature field on the wire (message.js: slice(offset, offset + 64))
SigLen == 64
\* bytes of the fixed header (message.js: Buffer.alloc(88 + ...))
HeaderLen == 88

(* Bounds of the model. *)

\* calls in a run of free calls
MaxOps == 3
\* calls on a peer, its construction included
MaxPeerOps == 4

----------------------------------------------------------------------------
(* Small helpers. *)

Min(a, b) == IF a < b THEN a ELSE b
Max(a, b) == IF a > b THEN a ELSE b

Zeros(n) == [i \in 1..n |-> 0]

NoMsg == [none |-> "msg"]
NoBuf == [none |-> "buf"]
NoIdentity == [none |-> "identity"]
NoPeer == [none |-> "peer"]

\* bit k (of weight w = 2^k) of a JavaScript int32, two's complement
BitAnd(n, w) == IF (n \div w) % 2 = 1 THEN w ELSE 0

----------------------------------------------------------------------------
(* Node's Buffer: a Buffer object is a view [base, off, len] of a region.  *)

\* the bytes a Buffer object shows
Read(h, b) == SubSeq(h[b.base], b.off + 1, b.off + b.len)

\* Buffer.alloc / Buffer.from: a fresh region, appended to the heap
AllocRef(h, bytes) == [base |-> Len(h) + 1, off |-> 0, len |-> Len(bytes)]

\* buf.slice(start, end): a view of the same memory, clamped to the buffer
Slice(b, start, end) ==
    LET s == Min(Max(start, 0), b.len)
        e == Min(Max(end, s), b.len)
    IN  [base |-> b.base, off |-> b.off + s, len |-> e - s]

\* src.copy(target, targetStart) on byte values: as many bytes as fit
CopyInto(target, pos, src) ==
    [i \in 1..Len(target) |->
        IF i > pos /\ i <= pos + Len(src) THEN src[i - pos] ELSE target[i]]

\* buf[i] = v: an in-place write through a Buffer object (i from 1)
WriteByte(h, b, i, v) ==
    [h EXCEPT ![b.base] = [@ EXCEPT ![b.off + i] = v]]

----------------------------------------------------------------------------
(* Hexadecimal strings: buf.write(str, offset, length, 'hex') and          *)
(* buf.toString('hex', start, end).  A string is a sequence of characters. *)

HexChars == <<"0", "1", "2", "3", "4", "5", "6", "7",
              "8", "9", "a", "b", "c", "d", "e", "f">>

\* value of a hexadecimal digit of either case, -1 for any other character
HexVal(c) ==
    CASE c = "0" -> 0  [] c = "1" -> 1  [] c = "2" -> 2  [] c = "3" -> 3
      [] c = "4" -> 4  [] c = "5" -> 5  [] c = "6" -> 6  [] c = "7" -> 7
      [] c = "8" -> 8  [] c = "9" -> 9
      [] c = "a" \/ c = "A" -> 10  [] c = "b" \/ c = "B" -> 11
      [] c = "c" \/ c = "C" -> 12  [] c = "d" \/ c = "D" -> 13
      [] c = "e" \/ c = "E" -> 14  [] c = "f" \/ c = "F" -> 15
      [] OTHER -> -1

\* the bytes buf.write(str, offset, max, 'hex') writes: whole pairs of digits,
\* at most max, up to the first pair that is not hexadecimal (a trailing odd
\* digit is dropped)
HexWrite(str, max) ==
    LET n    == Min(Len(str) \div 2, max)
        ok(i) == HexVal(str[2 * i - 1]) >= 0 /\ HexVal(str[2 * i]) >= 0
        k    == IF \A i \in 1..n : ok(i) THEN n
                ELSE (CHOOSE i \in 1..n : ~ok(i) /\ \A j \in 1..(i - 1) : ok(j)) - 1
    IN  [i \in 1..k |-> 16 * HexVal(str[2 * i - 1]) + HexVal(str[2 * i])]

\* buf.toString('hex', ...) of the bytes: two lower-case digits a byte
HexString(bytes) ==
    [i \in 1..(2 * Len(bytes)) |->
        IF i % 2 = 1 THEN HexChars[(bytes[(i + 1) \div 2] \div 16) + 1]
                     ELSE HexChars[(bytes[i \div 2] % 16) + 1]]

----------------------------------------------------------------------------
(* UTF-8: Buffer.from(string) and buf.toString('utf8').  A string is a     *)
(* sequence of code points; its JavaScript length counts UTF-16 units.     *)

Replacement == <<65533>>

Utf8Char(cp) ==
    IF cp < 128 THEN <<cp>>
    ELSE IF cp < 2048 THEN <<192 + (cp \div 64), 128 + (cp % 64)>>
    ELSE IF cp \in 55296..57343 THEN <<239, 191, 189>>
    ELSE IF cp < 65536
         THEN <<224 + (cp \div 4096), 128 + ((cp \div 64) % 64), 128 + (cp % 64)>>
    ELSE <<240 + (cp \div 262144), 128 + ((cp \div 4096) % 64),
           128 + ((cp \div 64) % 64), 128 + (cp % 64)>>

RECURSIVE Utf8Encode(_)
Utf8Encode(str) ==
    IF str = <<>> THEN <<>> ELSE Utf8Char(Head(str)) \o Utf8Encode(Tail(str))

\* string.length: a code point above the basic plane takes two units
RECURSIVE StringLength(_)
StringLength(str) ==
    IF str = <<>> THEN 0
    ELSE (IF Head(str) >= 65536 THEN 2 ELSE 1) + StringLength(Tail(str))

Drop(s, n) == SubSeq(s, n + 1, Len(s))

IsCont(b) == b \in 128..191

\* the range the second byte of a sequence led by b1 must lie in
SecondLo(b1) == IF b1 = 224 THEN 160 ELSE IF b1 = 240 THEN 144 ELSE 128
SecondHi(b1) == IF b1 = 237 THEN 159 ELSE IF b1 = 244 THEN 143 ELSE 191

\* decoding with U+FFFD for each ill-formed maximal subpart
RECURSIVE Utf8Decode(_)
Utf8Decode(bs) ==
    IF bs = <<>> THEN <<>>
    ELSE LET b1 == bs[1]
             n  == Len(bs)
             second == n >= 2 /\ bs[2] >= SecondLo(b1) /\ bs[2] <= SecondHi(b1)
         IN  IF b1 < 128 THEN <<b1>> \o Utf8Decode(Drop(bs, 1))
             ELSE IF b1 \in 194..223
             THEN IF second
                  THEN <<(b1 - 192) * 64 + (bs[2] - 128)>> \o Utf8Decode(Drop(bs, 2))
                  ELSE Replacement \o Utf8Decode(Drop(bs, 1))
             ELSE IF b1 \in 224..239
             THEN IF ~second THEN Replacement \o Utf8Decode(Drop(bs, 1))
                  ELSE IF n >= 3 /\ IsCont(bs[3])
                  THEN <<(b1 - 224) * 4096 + (bs[2] - 128) * 64 + (bs[3] - 128)>>
                       \o Utf8Decode(Drop(bs, 3))
                  ELSE Replacement \o Utf8Decode(Drop(bs, 2))
             ELSE IF b1 \in 240..244
             THEN IF ~second THEN Replacement \o Utf8Decode(Drop(bs, 1))
                  ELSE IF ~(n >= 3 /\ IsCont(bs[3]))
                  THEN Replacement \o Utf8Decode(Drop(bs, 2))
                  ELSE IF n >= 4 /\ IsCont(bs[4])
                  THEN <<(b1 - 240) * 262144 + (bs[2] - 128) * 4096
                         + (bs[3] - 128) * 64 + (bs[4] - 128)>>
                       \o Utf8Decode(Drop(bs, 4))
                  ELSE Replacement \o Utf8Decode(Drop(bs, 3))
             ELSE Replacement \o Utf8Decode(Drop(bs, 1))

----------------------------------------------------------------------------
(* The Identity capability (./identity, not part of these sources): an     *)
(* address and sign / verify / encrypt / decrypt.  It is modelled as an    *)
(* ideal scheme: a signature determines the key and the bytes signed, and  *)
(* decrypt inverts encrypt under the same key and rejects anything else.   *)

Alice == [address |-> [i \in 1..20 |-> IF i % 2 = 1 THEN "a" ELSE "1"], key |-> 5]
Bob   == [address |-> [i \in 1..20 |-> IF i % 2 = 1 THEN "0" ELSE "b"], key |-> 9]

Identities == {Alice, Bob}

\* the identity argument of a call: an identity, or none (undefined)
IdentityArgs == Identities \cup {NoIdentity}

IdSign(id, bytes) ==
    LET body == <<id.key, Len(bytes) % 256>> \o SubSeq(bytes, 1, Min(Len(bytes), SigLen - 2))
    IN  body \o Zeros(SigLen - Len(body))

IdVerify(id, bytes, sig) == sig = IdSign(id, bytes)

IdEncrypt(id, bytes) ==
    <<id.key>> \o [i \in 1..Len(bytes) |-> (bytes[i] + id.key) % 256]

\* whether decrypt accepts the ciphertext; it throws otherwise
IdDecryptable(id, cipher) == Len(cipher) >= 1 /\ cipher[1] = id.key

IdDecrypt(id, cipher) ==
    [i \in 1..(Len(cipher) - 1) |-> (cipher[i + 1] - id.key) % 256]

----------------------------------------------------------------------------
(* Message (src/message.js).  A Message object is a record                 *)
(*   [mode, ttl, seq, from, to, command, payload, signature, encrypted]    *)
(* whose payload, signature and encrypted are Buffer objects.  An          *)
(* operation is an operator from the heap and the object to the heap and   *)
(* the object it leaves and the error it throws ("" when it returns).      *)

(* JSON.stringify.  A value that is neither a string argument nor a Buffer *)
(* is one of                                                               *)
(*   [num |-> n]      an integer                                           *)
(*   [jstr |-> s]     a string inside a value, s its code points           *)
(*   [lit |-> l]      l one of "true", "false", "null"                     *)
(*   [arr |-> items]  an array, items a sequence of values                 *)
(*   [obj |-> pairs]  an object, pairs a sequence of <<key, value>> in the *)
(*                    order of its properties, key a string's code points  *)
(* and the text is a string, a sequence of code points.                    *)

\* the decimal digits of a natural number
RECURSIVE Digits(_)
Digits(n) == IF n < 10 THEN <<48 + n>> ELSE Digits(n \div 10) \o <<48 + (n % 10)>>

NumberString(n) == IF n < 0 THEN <<45>> \o Digits(0 - n) ELSE Digits(n)

\* a lower-case hexadecimal digit
HexDigit(d) == IF d < 10 THEN 48 + d ELSE 87 + d

\* \uXXXX
UnicodeEscape(c) ==
    <<92, 117, HexDigit((c \div 4096) % 16), HexDigit((c \div 256) % 16),
      HexDigit((c \div 16) % 16), HexDigit(c % 16)>>

\* a character of a string as it stands between the quotes
QuoteChar(c) ==
    CASE c = 34 -> <<92, 34>>
      [] c = 92 -> <<92, 92>>
      [] c = 8  -> <<92, 98>>
      [] c = 9  -> <<92, 116>>
      [] c = 10 -> <<92, 110>>
      [] c = 12 -> <<92, 102>>
      [] c = 13 -> <<92, 114>>
      [] OTHER  -> IF c < 32 \/ (c >= 55296 /\ c <= 57343) THEN UnicodeEscape(c)
                   ELSE <<c>>

RECURSIVE QuoteChars(_)
QuoteChars(str) ==
    IF str = <<>> THEN <<>> ELSE QuoteChar(Head(str)) \o QuoteChars(Tail(str))

Quote(str) == <<34>> \o QuoteChars(str) \o <<34>>

LiteralString(l) ==
    CASE l = "true"  -> <<116, 114, 117, 101>>
      [] l = "false" -> <<102, 97, 108, 115, 101>>
      [] l = "null"  -> <<110, 117, 108, 108>>

RECURSIVE JSONStringify(_)
RECURSIVE JSONItems(_, _)
RECURSIVE JSONMembers(_, _)

\* the items of an array from the i-th on, separated by commas
JSONItems(items, i) ==
    IF i > Len(items) THEN <<>>
    ELSE (IF i > 1 THEN <<44>> ELSE <<>>)
         \o JSONStringify(items[i]) \o JSONItems(items, i + 1)

\* the members of an object from the i-th on, separated by commas
JSONMembers(pairs, i) ==
    IF i > Len(pairs) THEN <<>>
    ELSE (IF i > 1 THEN <<44>> ELSE <<>>)
         \o Quote(pairs[i][1]) \o <<58>> \o JSONStringify(pairs[i][2])
         \o JSONMembers(pairs, i + 1)

JSONStringify(v) ==
    IF "num" \in DOMAIN v THEN NumberString(v.num)
    ELSE IF "jstr" \in DOMAIN v THEN Quote(v.jstr)
    ELSE IF "lit" \in DOMAIN v THEN LiteralString(v.lit)
    ELSE IF "arr" \in DOMAIN v THEN <<91>> \o JSONItems(v.arr, 1) \o <<93>>
    ELSE <<123>> \o JSONMembers(v.obj, 1) \o <<125>>

(* toBuffer.  The argument is one of                                       *)
(*   [undef |-> TRUE]       undefined: the default, Buffer.alloc(0)        *)
(*   [str |-> s]            a string: Buffer.from(s), a fresh Buffer       *)
(*   [base, off, len]       a Buffer: returned as it is, the same object   *)
(*   [val |-> v]            any other value: Buffer.from(JSON.stringify(v)) *)
toBuffer(h, payload) ==
    IF "undef" \in DOMAIN payload
    THEN [h |-> Append(h, <<>>), b |-> AllocRef(h, <<>>)]
    ELSE IF "str" \in DOMAIN payload
    THEN [h |-> Append(h, Utf8Encode(payload.str)),
          b |-> AllocRef(h, Utf8Encode(payload.str))]
    ELSE IF "base" \in DOMAIN payload
    THEN [h |-> h, b |-> payload]
    ELSE [h |-> Append(h, Utf8Encode(JSONStringify(payload.val))),
          b |-> AllocRef(h, Utf8Encode(JSONStringify(payload.val)))]

\* new Message({...}): the three buffers go through toBuffer
NewMessage(h, f) ==
    LET p == toBuffer(h, f.payload)
        s == toBuffer(p.h, f.signature)
        e == toBuffer(s.h, f.encrypted)
    IN  [h |-> e.h,
         m |-> [mode |-> f.mode, seq |-> f.seq, from |-> f.from, to |-> f.to,
                ttl |-> f.ttl, command |-> f.command,
                payload |-> p.b, signature |-> s.b, encrypted |-> e.b]]

hasEncryptFlag(m) == BitAnd(m.mode, MODE_ENCRYPTED) # 0

hasSignFlag(m) == BitAnd(m.mode, MODE_SIGNED) # 0

\* (mutant) the address is not compared
IdentityIs_AnyAddress(id, address) == id # NoIdentity

\* identity && identity.address === address
IdentityIs(id, address) == id # NoIdentity /\ id.address = address

\* (mutant) sign always signs the plaintext
signPayload_Plain(m) == m.payload

\* the bytes sign signs
signPayload(m) == IF hasEncryptFlag(m) THEN m.encrypted ELSE m.payload

sign(h, m, id) ==
    IF ~hasSignFlag(m) THEN [h |-> h, m |-> m, e |-> ""]
    ELSE IF ~IdentityIs(id, m.from)
    THEN [h |-> h, m |-> m, e |-> "Invalid identity to sign with"]
    ELSE LET sig == IdSign(id, Read(h, signPayload(m)))
         IN  [h |-> Append(h, sig),
              m |-> [m EXCEPT !.signature = AllocRef(h, sig)],
              e |-> ""]

\* (mutant) verify always checks the plaintext
verifyPayload_Plain(m) == m.payload

\* the bytes verify checks the signature against
verifyPayload(m) == IF hasEncryptFlag(m) THEN m.encrypted ELSE m.payload

\* (mutant) the result of the identity's verify is ignored
verifyCheck_NoThrow(h, m, id) == ""

\* what verify throws once the identity is accepted
verifyCheck(h, m, id) ==
    IF ~IdVerify(id, Read(h, verifyPayload(m)), Read(h, m.signature))
    THEN "Invalid signature" ELSE ""

verify(h, m, id) ==
    IF ~hasSignFlag(m) THEN [h |-> h, m |-> m, e |-> ""]
    ELSE IF ~IdentityIs(id, m.from)
    THEN [h |-> h, m |-> m, e |-> "Invalid identity to verify with"]
    ELSE [h |-> h, m |-> m, e |-> verifyCheck(h, m, id)]

\* (mutant) the ciphertext replaces payload instead of encrypted
encrypt_InPlace(h, m, id) ==
    IF ~hasEncryptFlag(m) THEN [h |-> h, m |-> m, e |-> ""]
    ELSE IF ~IdentityIs(id, m.to)
    THEN [h |-> h, m |-> m, e |-> "Invalid identity to encrypt with"]
    ELSE LET c == IdEncrypt(id, Read(h, m.payload))
         IN  [h |-> Append(h, c),
              m |-> [m EXCEPT !.payload = AllocRef(h, c)],
              e |-> ""]

encrypt(h, m, id) ==
    IF ~hasEncryptFlag(m) THEN [h |-> h, m |-> m, e |-> ""]
    ELSE IF ~IdentityIs(id, m.to)
    THEN [h |-> h, m |-> m, e |-> "Invalid identity to encrypt with"]
    ELSE LET c == IdEncrypt(id, Read(h, m.payload))
         IN  [h |-> Append(h, c),
              m |-> [m EXCEPT !.encrypted = AllocRef(h, c)],
              e |-> ""]

\* (mutant) decrypt without the early return on an unset flag
decrypt_Ungated(h, m, id) ==
    IF ~IdentityIs(id, m.to)
    THEN [h |-> h, m |-> m, e |-> "Invalid identity to decrypt with"]
    ELSE IF ~IdDecryptable(id, Read(h, m.encrypted))
    THEN [h |-> h, m |-> m, e |-> "Decrypt failed"]
    ELSE LET p == IdDecrypt(id, Read(h, m.encrypted))
         IN  [h |-> Append(h, p),
              m |-> [m EXCEPT !.payload = AllocRef(h, p)],
              e |-> ""]

decrypt(h, m, id) ==
    IF ~hasEncryptFlag(m) THEN [h |-> h, m |-> m, e |-> ""]
    ELSE IF ~IdentityIs(id, m.to)
    THEN [h |-> h, m |-> m, e |-> "Invalid identity to decrypt with"]
    ELSE IF ~IdDecryptable(id, Read(h, m.encrypted))
    THEN [h |-> h, m |-> m, e |-> "Decrypt failed"]
    ELSE LET p == IdDecrypt(id, Read(h, m.encrypted))
         IN  [h |-> Append(h, p),
              m |-> [m EXCEPT !.payload = AllocRef(h, p)],
              e |-> ""]

\* getLengthPrefixed: one length byte, then the bytes; writeUInt8 throws on a
\* length above 255, which shows here as an empty result
getLengthPrefixed(str) ==
    LET payload == Utf8Encode(str)
    IN  IF Len(payload) > 255 THEN <<>> ELSE <<Len(payload)>> \o payload

\* (mutant) the payload whatever the mode
getBufferPayload_Plain(m) == m.payload

\* the bytes getBuffer puts after the command
getBufferPayload(m) == IF hasEncryptFlag(m) THEN m.encrypted ELSE m.payload

\* (mutant) the check of encrypted is missing
getBufferError_NoEncryptedCheck(h, m) ==
    IF m.from = <<>> THEN "Unset from"
    ELSE IF hasSignFlag(m) /\ m.signature.len = 0 THEN "Invalid signature"
    ELSE IF getLengthPrefixed(m.command) = <<>> THEN "RangeError"
    ELSE IF m.mode \notin 0..255 \/ m.ttl \notin 0..255 THEN "RangeError"
    ELSE ""

\* what getBuffer throws, "" when it returns a buffer
getBufferError(h, m) ==
    IF m.from = <<>> THEN "Unset from"
    ELSE IF hasSignFlag(m) /\ m.signature.len = 0 THEN "Invalid signature"
    ELSE IF hasEncryptFlag(m) /\ m.encrypted.len = 0 THEN "Invalid encrypted"
    ELSE IF getLengthPrefixed(m.command) = <<>> THEN "RangeError"
    ELSE IF m.mode \notin 0..255 \/ m.ttl \notin 0..255 THEN "RangeError"
    ELSE ""

\* (mutant) seq is written where the layout has it
getBufferBytes_WritesSeq(h, m) ==
    LET payload    == Read(h, getBufferPayload(m))
        commandBuf == getLengthPrefixed(m.command)
        b0 == Zeros(HeaderLen + Len(commandBuf) + Len(payload))
        b1 == CopyInto(b0, 0, <<m.mode>>)
        b2 == CopyInto(b1, 1, <<m.ttl>>)
        b3 == CopyInto(b2, 2, <<m.seq % 256, m.seq \div 256>>)
        b4 == CopyInto(b3, 4, HexWrite(m.from, AddrLen))
        b5 == IF m.to # <<>> THEN CopyInto(b4, 4 + AddrLen, HexWrite(m.to, AddrLen))
              ELSE b4
        b6 == CopyInto(b5, 4 + 2 * AddrLen, Read(h, m.signature))
        b7 == CopyInto(b6, HeaderLen, commandBuf)
    IN  CopyInto(b7, HeaderLen + Len(commandBuf), payload)

\* (mutant) the signature is copied after the command and the payload
getBufferBytes_SignatureLast(h, m) ==
    LET payload    == Read(h, getBufferPayload(m))
        commandBuf == getLengthPrefixed(m.command)
        b0 == Zeros(HeaderLen + Len(commandBuf) + Len(payload))
        b1 == CopyInto(b0, 0, <<m.mode>>)
        b2 == CopyInto(b1, 1, <<m.ttl>>)
        b3 == CopyInto(b2, 2, <<m.mode % 256, m.mode \div 256>>)
        b4 == CopyInto(b3, 4, HexWrite(m.from, AddrLen))
        b5 == IF m.to # <<>> THEN CopyInto(b4, 4 + AddrLen, HexWrite(m.to, AddrLen))
              ELSE b4
        b6 == CopyInto(b5, HeaderLen, commandBuf)
        b7 == CopyInto(b6, HeaderLen + Len(commandBuf), payload)
    IN  CopyInto(b7, 4 + 2 * AddrLen, Read(h, m.signature))

\* the bytes of the buffer getBuffer returns
getBufferBytes(h, m) ==
    LET payload    == Read(h, getBufferPayload(m))
        commandBuf == getLengthPrefixed(m.command)
        b0 == Zeros(HeaderLen + Len(commandBuf) + Len(payload))
        b1 == CopyInto(b0, 0, <<m.mode>>)
        b2 == CopyInto(b1, 1, <<m.ttl>>)
        b3 == CopyInto(b2, 2, <<m.mode % 256, m.mode \div 256>>)
        b4 == CopyInto(b3, 4, HexWrite(m.from, AddrLen))
        b5 == IF m.to # <<>> THEN CopyInto(b4, 4 + AddrLen, HexWrite(m.to, AddrLen))
              ELSE b4
        b6 == CopyInto(b5, 4 + 2 * AddrLen, Read(h, m.signature))
        b7 == CopyInto(b6, HeaderLen, commandBuf)
    IN  CopyInto(b7, HeaderLen + Len(commandBuf), payload)

\* readLengthPrefixed: the slice the length byte at offset announces
readLengthPrefixed(h, buf, offset) ==
    LET length == Read(h, buf)[offset + 1]
    IN  Slice(buf, offset + 1, offset + length + 1)

\* readInt8: a byte as a signed number
readInt8(b) == IF b >= 128 THEN b - 256 ELSE b

\* the offset fromBuffer takes the payload from
payloadOffset(command) == HeaderLen + StringLength(command) + 1

\* what fromBuffer throws: a read at an offset outside the buffer
fromBufferError(h, buf) == IF buf.len < HeaderLen + 1 THEN "RangeError" ELSE ""

\* fromBuffer on a buffer it can read: the heap and the Message it returns
fromBuffer(h, buf) ==
    LET bytes     == Read(h, buf)
        mode      == readInt8(bytes[1])
        ttl       == bytes[2]
        seq       == bytes[3] + 256 * bytes[4]
        from      == HexString(SubSeq(bytes, 5, 4 + AddrLen))
        to        == HexString(SubSeq(bytes, 5 + AddrLen, 4 + 2 * AddrLen))
        signature == Slice(buf, 4 + 2 * AddrLen, HeaderLen)
        command   == Utf8Decode(Read(h, readLengthPrefixed(h, buf, HeaderLen)))
        payload   == Slice(buf, payloadOffset(command), buf.len)
        h1        == h \o <<<<>>, <<>>>>
        new       == NewMessage(h1,
                        [mode |-> mode, ttl |-> ttl, seq |-> seq, from |-> from,
                         to |-> to, command |-> command, signature |-> signature,
                         payload   |-> [base |-> Len(h) + 1, off |-> 0, len |-> 0],
                         encrypted |-> [base |-> Len(h) + 2, off |-> 0, len |-> 0]])
    IN  [h |-> new.h,
         m |-> IF hasEncryptFlag(new.m) THEN [new.m EXCEPT !.encrypted = payload]
               ELSE [new.m EXCEPT !.payload = payload]]

\* clone: new Message(this)
clone(h, m) == NewMessage(h, m)

----------------------------------------------------------------------------
(* The state machine: message objects in slots, and the calls made on them. *)
(* hist records each call: its name, the slot of the object it is made on,  *)
(* its identity argument, the error it threw ("" when it returned), the     *)
(* fields' values of every object before it, the wire buffer before it and  *)
(* the number of buffers allocated before it.                               *)

Slots == {"m", "c", "r"}

\* a Message's fields with each Buffer replaced by the bytes it shows
View(h, m) ==
    IF m = NoMsg THEN NoMsg
    ELSE [m EXCEPT !.payload = Read(h, m.payload),
                   !.signature = Read(h, m.signature),
                   !.encrypted = Read(h, m.encrypted)]

Views(h, ms) == [s \in Slots |-> View(h, ms[s])]

\* the fields' values now
Now == Views(heap, msg)

Call(name, s, id, e) ==
    [name |-> name, slot |-> s, id |-> id, err |-> e, before |-> Now, wire |-> wire,
     allocated |-> Len(heap)]

nops == Len(hist)

\* the fields' values after the k-th call
After(k) == IF k = Len(hist) THEN Now ELSE hist[k + 1].before

\* the state after new Message(f), for f with the buffers given as bytes
Constructed(f) ==
    LET h0  == <<f.payload, f.signature, f.encrypted>>
        new == NewMessage(h0, [f EXCEPT !.payload   = [base |-> 1, off |-> 0, len |-> Len(f.payload)],
                                        !.signature = [base |-> 2, off |-> 0, len |-> Len(f.signature)],
                                        !.encrypted = [base |-> 3, off |-> 0, len |-> Len(f.encrypted)]])
    IN  /\ heap = new.h
        /\ msg = [s \in Slots |-> IF s = "m" THEN new.m ELSE NoMsg]
        /\ wire = NoBuf
        /\ hist = <<>>
        /\ made = View(new.h, new.m)
        /\ peer = [obj |-> NoPeer, calls |-> <<>>]

\* the state after new Message(f) for f with signature and encrypted given as
\* bytes and payload an argument of toBuffer that is not a Buffer: undefined,
\* a string or a value that goes through JSON.stringify
ConstructedFrom(f) ==
    LET h0  == <<f.signature, f.encrypted>>
        new == NewMessage(h0, [f EXCEPT !.signature = [base |-> 1, off |-> 0, len |-> Len(f.signature)],
                                        !.encrypted = [base |-> 2, off |-> 0, len |-> Len(f.encrypted)]])
    IN  /\ heap = new.h
        /\ msg = [s \in Slots |-> IF s = "m" THEN new.m ELSE NoMsg]
        /\ wire = NoBuf
        /\ hist = <<>>
        /\ made = View(new.h, new.m)
        /\ peer = [obj |-> NoPeer, calls |-> <<>>]

\* a call on the object in slot s with result res = [h, m, e]
Do(name, s, id, res) ==
    /\ heap' = res.h
    /\ msg' = [msg EXCEPT ![s] = res.m]
    /\ hist' = Append(hist, Call(name, s, id, res.e))
    /\ UNCHANGED <<wire, made>>

Sign(s, id)    == msg[s] # NoMsg /\ Do("sign", s, id, sign(heap, msg[s], id))
Verify(s, id)  == msg[s] # NoMsg /\ Do("verify", s, id, verify(heap, msg[s], id))
Encrypt(s, id) == msg[s] # NoMsg /\ Do("encrypt", s, id, encrypt(heap, msg[s], id))
Decrypt(s, id) == msg[s] # NoMsg /\ Do("decrypt", s, id, decrypt(heap, msg[s], id))

\* getBuffer on the object in slot s: the buffer returned is kept in wire
GetBuffer(s) ==
    /\ msg[s] # NoMsg
    /\ LET e     == getBufferError(heap, msg[s])
           bytes == getBufferBytes(heap, msg[s])
       IN  /\ hist' = Append(hist, Call("getBuffer", s, NoIdentity, e))
           /\ heap' = IF e = "" THEN Append(heap, bytes) ELSE heap
           /\ wire' = IF e = "" THEN AllocRef(heap, bytes) ELSE wire
    /\ UNCHANGED <<msg, made>>

\* Message.fromBuffer(wire): the Message returned is kept in slot "r"
FromBuffer ==
    /\ wire # NoBuf
    /\ LET e   == fromBufferError(heap, wire)
           new == fromBuffer(heap, wire)
       IN  /\ hist' = Append(hist, Call("fromBuffer", "r", NoIdentity, e))
           /\ heap' = IF e = "" THEN new.h ELSE heap
           /\ msg' = IF e = "" THEN [msg EXCEPT !["r"] = new.m] ELSE msg
    /\ UNCHANGED <<wire, made>>

\* the lengths a buffer of n bytes is cut to when a frame arrives truncated:
\* nothing, the header, the header and the command's length byte, all but the
\* last byte
TruncatedLengths(n) == {0, HeaderLen, HeaderLen + 1, n - 1} \cap 0..(n - 1)

\* the buffer handed to fromBuffer is the first n bytes of the frame encoded
Truncate ==
    /\ wire # NoBuf
    /\ \E n \in TruncatedLengths(wire.len) :
          LET bytes == SubSeq(Read(heap, wire), 1, n)
          IN  /\ heap' = Append(heap, bytes)
              /\ wire' = AllocRef(heap, bytes)
    /\ hist' = Append(hist, Call("truncate", "r", NoIdentity, ""))
    /\ UNCHANGED <<msg, made>>

\* the Buffer fields of a Message
BufferFields == {"payload", "encrypted", "signature"}

\* the values an in-place write stores
WriteValues == {0, 255}

\* m[field][i - 1] = v by the owner of the object in slot s: an in-place
\* change of one byte of one of its buffers
Write(s, field, i, v) ==
    /\ msg[s] # NoMsg
    /\ i \in 1..msg[s][field].len
    /\ Read(heap, msg[s][field])[i] # v
    /\ heap' = WriteByte(heap, msg[s][field], i, v)
    /\ hist' = Append(hist, Call("write", s, NoIdentity, ""))
    /\ UNCHANGED <<msg, wire, made>>

----------------------------------------------------------------------------
(* Spec: one message and any calls of sign, verify, encrypt, decrypt and   *)
(* getBuffer on it, with any identity argument, and in-place writes to its *)
(* payload and encrypted buffers.                                          *)

\* the payloads a message is constructed with
Payloads == {<<>>, <<7, 200>>}

\* the encrypted field a message is constructed with: unset, or a ciphertext
\* received earlier
Ciphertexts == {<<>>, IdEncrypt(Bob, <<3>>)}

Init ==
    /\ pc = "free"
    /\ \E mode \in 0..3, from \in {Alice.address, <<>>},
          payload \in Payloads, encrypted \in Ciphertexts :
          Constructed([mode |-> mode, ttl |-> 1, seq |-> 0, from |-> from,
                       to |-> Bob.address, command |-> <<104, 105>>,
                       payload |-> payload, signature |-> <<>>,
                       encrypted |-> encrypted])

\* a free call: the run is bounded, the send/receive task is not running
Free == nops < MaxOps /\ UNCHANGED <<pc, peer>>

SignCall    == Free /\ \E id \in IdentityArgs : Sign("m", id)
VerifyCall  == Free /\ \E id \in IdentityArgs : Verify("m", id)
EncryptCall == Free /\ \E id \in IdentityArgs : Encrypt("m", id)
DecryptCall == Free /\ \E id \in IdentityArgs : Decrypt("m", id)
EncodeCall  == Free /\ GetBuffer("m")
WriteCall   ==
    Free /\ \E f \in {"payload", "encrypted"} :
               \E i \in 1..msg["m"][f].len, v \in WriteValues : Write("m", f, i, v)

Next ==
    \/ SignCall
    \/ VerifyCall
    \/ EncryptCall
    \/ DecryptCall
    \/ EncodeCall
    \/ WriteCall

Spec == Init /\ [][Next]_vars

----------------------------------------------------------------------------
(* SpecCodec: a message constructed from any of the field values below is  *)
(* encoded, the buffer decoded, and the decoded message encoded again; the *)
(* buffer may reach fromBuffer truncated.                                  *)

\* "" , "hi", "e-acute" (2 bytes), "h" + euro sign (1 + 3 bytes), an emoji
\* (4 bytes, 2 UTF-16 units)
Commands == {<<>>, <<104, 105>>, <<233>>, <<104, 8364>>, <<128512>>}

\* the signature field a message is constructed with: unset, a signature of
\* SigLen bytes, a shorter and a longer buffer
Signatures ==
    {<<>>, IdSign(Alice, <<7>>), <<1, 2>>, IdSign(Alice, <<7>>) \o <<3, 4>>}

\* payload arguments that are not Buffers: undefined, "hi", "e-acute",
\* {a: 1}, [7, 200], 5, {"k": "\"\n"}
PayloadArguments ==
    {[undef |-> TRUE], [str |-> <<104, 105>>], [str |-> <<233>>],
     [val |-> [obj |-> <<<<<<97>>, [num |-> 1]>>>>]],
     [val |-> [arr |-> <<[num |-> 7], [num |-> 200]>>]],
     [val |-> [num |-> 5]],
     [val |-> [obj |-> <<<<<<107>>, [jstr |-> <<34, 10>>]>>>>]]}

InitCodec ==
    /\ pc = "free"
    /\ \/ \E mode \in 0..3, ttl \in {0, 255}, seq \in {0, 513},
             from \in {Alice.address, <<>>}, to \in {Bob.address, <<>>},
             command \in Commands, payload \in Payloads,
             signature \in Signatures, encrypted \in Ciphertexts :
             Constructed([mode |-> mode, ttl |-> ttl, seq |-> seq, from |-> from,
                          to |-> to, command |-> command, payload |-> payload,
                          signature |-> signature, encrypted |-> encrypted])
       \/ \E mode \in 0..3, command \in Commands, payload \in PayloadArguments,
             encrypted \in Ciphertexts :
             ConstructedFrom([mode |-> mode, ttl |-> 1, seq |-> 0,
                              from |-> Alice.address, to |-> Bob.address,
                              command |-> command, payload |-> payload,
                              signature |-> <<>>, encrypted |-> encrypted])

DecodeCall == Free /\ FromBuffer

TruncateCall == Free /\ Truncate
ReencodeCall == Free /\ GetBuffer("r")

NextCodec ==
    \/ TruncateCall
    \/ EncodeCall
    \/ DecodeCall
    \/ ReencodeCall

SpecCodec == InitCodec /\ [][NextCodec]_vars

----------------------------------------------------------------------------
(* SpecPipeline: the sender, an identity whose address is from, sends to   *)
(* the recipient, an identity whose address is to: encrypt(recipient),     *)
(* sign(sender), getBuffer; the receiving side runs fromBuffer,            *)
(* verify(sender), decrypt(recipient).  A call that throws ends the task.  *)

InitPipeline ==
    /\ pc = "encrypt"
    /\ \E mode \in 0..3, command \in Commands, payload \in Payloads :
          Constructed([mode |-> mode, ttl |-> 1, seq |-> 0, from |-> Alice.address,
                       to |-> Bob.address, command |-> command, payload |-> payload,
                       signature |-> <<>>, encrypted |-> <<>>])

\* the task moves to next unless the call just made threw
Move(next) ==
    /\ pc' = IF hist'[Len(hist')].err = "" THEN next ELSE "failed"
    /\ UNCHANGED peer

SendEncrypt == pc = "encrypt" /\ Encrypt("m", Bob) /\ Move("sign")
SendSign    == pc = "sign" /\ Sign("m", Alice) /\ Move("getBuffer")
SendEncode  == pc = "getBuffer" /\ GetBuffer("m") /\ Move("fromBuffer")
RecvDecode  == pc = "fromBuffer" /\ FromBuffer /\ Move("verify")
RecvVerify  == pc = "verify" /\ Verify("r", Alice) /\ Move("decrypt")
RecvDecrypt == pc = "decrypt" /\ Decrypt("r", Bob) /\ Move("done")

NextPipeline ==
    \/ SendEncrypt
    \/ SendSign
    \/ SendEncode
    \/ RecvDecode
    \/ RecvVerify
    \/ RecvDecrypt

SpecPipeline == InitPipeline /\ [][NextPipeline]_vars

----------------------------------------------------------------------------
(* SpecClone: a message is cloned, and the owner of the original and the   *)
(* owner of the clone each call sign, encrypt and decrypt on their object, *)
(* assign to its fields and change bytes of its buffers in place, in any   *)
(* order.  Each call is synchronous, so calls interleave as wholes.        *)

InitClone ==
    /\ pc = "free"
    /\ \E payload \in {<<7>>, <<7, 200>>}, encrypted \in Ciphertexts,
          signature \in {<<>>, <<1, 2>>} :
          Constructed([mode |-> MODE_ENCRYPTED + MODE_SIGNED, ttl |-> 1, seq |-> 0,
                       from |-> Alice.address, to |-> Bob.address,
                       command |-> <<104, 105>>, payload |-> payload,
                       signature |-> signature, encrypted |-> encrypted])

\* c = m.clone()
Clone ==
    /\ msg["m"] # NoMsg
    /\ msg["c"] = NoMsg
    /\ LET new == clone(heap, msg["m"])
       IN  /\ heap' = new.h
           /\ msg' = [msg EXCEPT !["c"] = new.m]
    /\ hist' = Append(hist, Call("clone", "c", NoIdentity, ""))
    /\ UNCHANGED <<wire, made>>

\* an assignment by the owner of the object in slot s: a new ttl
AssignTtl(s) ==
    /\ msg[s] # NoMsg
    /\ msg' = [msg EXCEPT ![s].ttl = (@ + 1) % 256]
    /\ hist' = Append(hist, Call("assign", s, NoIdentity, ""))
    /\ UNCHANGED <<heap, wire, made>>

\* an assignment by the owner of the object in slot s: a new payload Buffer
AssignPayload(s) ==
    /\ msg[s] # NoMsg
    /\ heap' = Append(heap, <<9, 9>>)
    /\ msg' = [msg EXCEPT ![s].payload = AllocRef(heap, <<9, 9>>)]
    /\ hist' = Append(hist, Call("assign", s, NoIdentity, ""))
    /\ UNCHANGED <<wire, made>>

Owners == {"m", "c"}

\* both objects exist
Cloned == msg["c"] # NoMsg

CloneCall == Free /\ Clone
OwnerSign    == Free /\ Cloned /\ \E s \in Owners : Sign(s, Alice)
OwnerEncrypt == Free /\ Cloned /\ \E s \in Owners : Encrypt(s, Bob)
OwnerDecrypt == Free /\ Cloned /\ \E s \in Owners : Decrypt(s, Bob)
OwnerAssign  == Free /\ Cloned /\ \E s \in Owners : AssignTtl(s) \/ AssignPayload(s)
OwnerWrite   ==
    Free /\ Cloned /\ \E s \in Owners, f \in BufferFields :
               \E i \in {1, msg[s][f].len}, v \in WriteValues : Write(s, f, i, v)

NextClone ==
    \/ CloneCall
    \/ OwnerSign
    \/ OwnerEncrypt
    \/ OwnerDecrypt
    \/ OwnerAssign
    \/ OwnerWrite

SpecClone == InitClone /\ [][NextClone]_vars

----------------------------------------------------------------------------
(* Peer (src/peer.js).  A Peer object is a record                          *)
(*   [address, pubKey, networkId, urls, timestamp].                        *)
(* A url and a proto are strings, sequences of characters; a timestamp     *)
(* argument is a number of milliseconds, and a Date is the record of its   *)
(* time value.                                                             *)

\* the address the Identity constructor derives from a public key (./identity,
\* not part of these sources): a function of the key, 20 hexadecimal digits
DeriveAddress(pubKey) == [i \in 1..20 |-> HexChars[((pubKey + i) % 16) + 1]]

\* super(pubKey): the Identity part of the object
IdentityOf(pubKey) == [pubKey |-> pubKey, address |-> DeriveAddress(pubKey)]

\* new Date(timestamp) for a number of milliseconds
NewDate(timestamp) == [time |-> timestamp]

\* a constructor that accepts any address
PeerError_NoCheck(info) == ""

\* what the constructor throws, "" when it returns the object
PeerError(info) ==
    IF info.address # IdentityOf(info.pubKey).address THEN "Mismatch address" ELSE ""

\* the object the constructor returns
NewPeer(info) ==
    [address |-> IdentityOf(info.pubKey).address, pubKey |-> IdentityOf(info.pubKey).pubKey,
     networkId |-> info.networkId, urls |-> info.urls,
     timestamp |-> NewDate(info.timestamp)]

\* url.startsWith(prefix)
StartsWith(url, prefix) ==
    Len(url) >= Len(prefix) /\ SubSeq(url, 1, Len(prefix)) = prefix

\* a prefix without the colon
ProtoPrefix_NoColon(dialer) == dialer.proto

\* the prefix a dialer makes eligible: `${dialer.proto}:`
ProtoPrefix(dialer) == dialer.proto \o <<":">>

\* node.dialers.find(dialer => url.startsWith(...)) found a dialer
Dialable(node, url) ==
    \E i \in 1..Len(node.dialers) : StartsWith(url, ProtoPrefix(node.dialers[i]))

\* array.filter(keep): the elements kept, in the array's order
RECURSIVE Filter(_, _, _)
Filter(node, urls, i) ==
    IF i > Len(urls) THEN <<>>
    ELSE (IF Dialable(node, urls[i]) THEN <<urls[i]>> ELSE <<>>)
         \o Filter(node, urls, i + 1)

getEligibleUrls(p, node) == Filter(node, p.urls, 1)

\* an update that keeps the newer of the two records
update_KeepNewest(p, peerInfo) ==
    IF peerInfo.timestamp < p.timestamp.time THEN p
    ELSE [p EXCEPT !.urls = peerInfo.urls, !.timestamp = NewDate(peerInfo.timestamp)]

update(p, peerInfo) ==
    [p EXCEPT !.urls = peerInfo.urls, !.timestamp = NewDate(peerInfo.timestamp)]

----------------------------------------------------------------------------
(* SpecPeer: a peer is constructed from any of the arguments below, and    *)
(* if the constructor returned it, getEligibleUrls and update are called   *)
(* on it in any order.  peer.calls                                         *)
(* records each call: its name, argument, error, the object before it and  *)
(* the value it returned.                                                  *)

Tcp == <<"t", "c", "p">>
Ws  == <<"w", "s">>
Wss == <<"w", "s", "s">>

\* "tcp:1", "ws:h", "wss:h", "tcp" (no colon)
UrlTcp    == Tcp \o <<":", "1">>
UrlWs     == Ws \o <<":", "h">>
UrlWss    == Wss \o <<":", "h">>
UrlNoColon == Tcp

UrlLists ==
    {<<>>, <<UrlTcp, UrlWs>>, <<UrlWss, UrlTcp, UrlWs, UrlTcp>>, <<UrlWss, UrlNoColon>>}

Nodes ==
    {[dialers |-> <<>>], [dialers |-> <<[proto |-> Tcp]>>],
     [dialers |-> <<[proto |-> Ws]>>], [dialers |-> <<[proto |-> Wss], [proto |-> Tcp]>>]}

PubKeys == {1, 2}

Timestamps == {10, 20, 30}

PeerCall(name, arg, e, result) ==
    [name |-> name, arg |-> arg, err |-> e, before |-> peer.obj, result |-> result]

\* the message part of the state is not used
PeerIdle == UNCHANGED <<heap, msg, wire, hist, pc, made>>

PeerFree == Len(peer.calls) < MaxPeerOps /\ PeerIdle

InitPeer ==
    /\ pc = "free"
    /\ heap = <<>>
    /\ msg = [s \in Slots |-> NoMsg]
    /\ wire = NoBuf
    /\ hist = <<>>
    /\ made = NoMsg
    /\ peer = [obj |-> NoPeer, calls |-> <<>>]

\* new Peer(info)
ConstructPeer ==
    /\ PeerFree
    /\ peer.calls = <<>>
    /\ \E pubKey \in PubKeys, address \in {DeriveAddress(k) : k \in PubKeys} \cup {<<>>},
          urls \in UrlLists, timestamp \in Timestamps :
          LET info == [networkId |-> 1, address |-> address, pubKey |-> pubKey,
                       urls |-> urls, timestamp |-> timestamp]
              e    == PeerError(info)
          IN  peer' = [obj |-> IF e = "" THEN NewPeer(info) ELSE peer.obj,
                       calls |-> Append(peer.calls, PeerCall("new", info, e, NoPeer))]

\* peer.getEligibleUrls(node)
EligibleCall ==
    /\ PeerFree
    /\ peer.obj # NoPeer
    /\ \E node \in Nodes :
          peer' = [obj |-> peer.obj,
                   calls |-> Append(peer.calls,
                                PeerCall("getEligibleUrls", node, "",
                                         getEligibleUrls(peer.obj, node)))]

\* peer.update(peerInfo)
UpdateCall ==
    /\ PeerFree
    /\ peer.obj # NoPeer
    /\ \E urls \in UrlLists, timestamp \in Timestamps :
          LET peerInfo == [urls |-> urls, timestamp |-> timestamp]
          IN  peer' = [obj |-> update(peer.obj, peerInfo),
                       calls |-> Append(peer.calls, PeerCall("update", peerInfo, "", NoPeer))]

NextPeer ==
    \/ ConstructPeer
    \/ EligibleCall
    \/ UpdateCall

SpecPeer == InitPeer /\ [][NextPeer]_vars

----------------------------------------------------------------------------
(* Properties of the calls on one message (Spec).                          *)

\* the k-th call, the object it was made on before the call and after it
Before(k) == hist[k].before[hist[k].slot]
Result(k) == After(k)[hist[k].slot]

\* the flags of a message's fields: SIGNED is bit 1 of mode, ENCRYPTED bit 0
SignedSet(v) == (v.mode \div 2) % 2 = 1
EncryptedSet(v) == v.mode % 2 = 1

\* the identity argument is an identity with this address
Matches(id, address) == id \in Identities /\ id.address = address

\* the active payload of a message's fields
Active(v) == IF EncryptedSet(v) THEN v.encrypted ELSE v.payload

\* the k-th call is name, with an identity whose address is the field's value
Proper(k, name, field) ==
    /\ hist[k].name = name
    /\ Matches(hist[k].id, Before(k)[field])

\* the call after the k-th is name, on the same object with the same identity
Then(k, name) ==
    /\ k + 1 <= Len(hist)
    /\ hist[k + 1].name = name
    /\ hist[k + 1].slot = hist[k].slot
    /\ hist[k + 1].id = hist[k].id

(* C3: on a message with SIGNED set, sign(id) followed at once by          *)
(* verify(id), for an identity whose address is the message's from,        *)
(* returns without throwing, whether ENCRYPTED is set or not.              *)
C3_SignThenVerify ==
    \A k \in 1..Len(hist) :
        (Proper(k, "sign", "from") /\ SignedSet(Before(k)) /\ Then(k, "verify"))
            => hist[k].err = "" /\ hist[k + 1].err = ""

C3_Witness ==
    \E k \in 1..Len(hist) :
        /\ Proper(k, "sign", "from") /\ SignedSet(Before(k)) /\ Then(k, "verify")
        /\ EncryptedSet(Before(k)) /\ Before(k).encrypted # <<>>
        /\ Before(k).encrypted # Before(k).payload
        /\ hist[k + 1].err = ""

(* C4: on a message with SIGNED set and signed by the identity whose       *)
(* address is from, an in-place change of a byte of the active payload     *)
(* after sign makes the following verify with that identity throw          *)
(* "Invalid signature".                                                    *)
C4_TamperDetected ==
    \A k \in 1..Len(hist) :
        ( /\ Proper(k, "sign", "from") /\ SignedSet(Before(k)) /\ hist[k].err = ""
          /\ k + 2 <= Len(hist)
          /\ hist[k + 1].name = "write" /\ hist[k + 1].slot = hist[k].slot
          /\ Active(Result(k + 1)) # Active(Result(k))
          /\ hist[k + 2].name = "verify" /\ hist[k + 2].slot = hist[k].slot
          /\ hist[k + 2].id = hist[k].id )
            => hist[k + 2].err = "Invalid signature"

C4_Witness ==
    \E k \in 1..Len(hist) :
        /\ Proper(k, "sign", "from") /\ SignedSet(Before(k)) /\ hist[k].err = ""
        /\ EncryptedSet(Before(k))
        /\ k + 2 <= Len(hist)
        /\ hist[k + 1].name = "write"
        /\ Result(k + 1).encrypted # Result(k).encrypted
        /\ hist[k + 2].name = "verify" /\ hist[k + 2].id = hist[k].id
        /\ hist[k + 2].err = "Invalid signature"

(* C5: on a message with ENCRYPTED set, encrypt(id) followed at once by    *)
(* decrypt(id), for an identity whose address is the message's to, throws  *)
(* nothing and leaves payload equal to the payload before encrypt.         *)
C5_EncryptThenDecrypt ==
    \A k \in 1..Len(hist) :
        (Proper(k, "encrypt", "to") /\ EncryptedSet(Before(k)) /\ Then(k, "decrypt"))
            => /\ hist[k].err = "" /\ hist[k + 1].err = ""
               /\ Result(k + 1).payload = Before(k).payload

C5_Witness ==
    \E k \in 1..Len(hist) :
        /\ Proper(k, "encrypt", "to") /\ EncryptedSet(Before(k)) /\ Then(k, "decrypt")
        /\ Before(k).payload = <<7, 200>>
        /\ Before(k).encrypted # <<>>
        /\ Result(k).encrypted # Before(k).encrypted
        /\ Result(k + 1).payload = <<7, 200>>

\* the k-th call is one whose governing flag is unset on its object
Ungated(k) ==
    \/ hist[k].name \in {"sign", "verify"} /\ ~SignedSet(Before(k))
    \/ hist[k].name \in {"encrypt", "decrypt"} /\ ~EncryptedSet(Before(k))

(* C6: sign or verify on a message with SIGNED unset, and encrypt or       *)
(* decrypt on a message with ENCRYPTED unset, throw nothing and leave      *)
(* every field of the message unchanged, whatever the identity argument    *)
(* (absent and mismatching ones included).                                 *)
C6_UngatedNoOp ==
    \A k \in 1..Len(hist) :
        Ungated(k) => hist[k].err = "" /\ After(k) = hist[k].before

C6_Witness ==
    /\ \E k \in 1..Len(hist) :
          Ungated(k) /\ hist[k].name = "sign" /\ hist[k].id = NoIdentity
    /\ \E k \in 1..Len(hist) :
          /\ Ungated(k) /\ hist[k].name = "decrypt" /\ hist[k].id = Alice
          /\ Before(k).encrypted # <<>>

\* the wire buffer after the k-th call
WireAfter(k) == IF k = Len(hist) THEN wire ELSE hist[k + 1].wire

\* the first of getBuffer's checks that fails on the fields v
EncodeFailure(v) ==
    IF v.from = <<>> THEN "Unset from"
    ELSE IF SignedSet(v) /\ v.signature = <<>> THEN "Invalid signature"
    ELSE IF EncryptedSet(v) /\ v.encrypted = <<>> THEN "Invalid encrypted"
    ELSE ""

(* C7: getBuffer throws and returns no buffer when from is empty ("Unset   *)
(* from"), when SIGNED is set and signature is empty ("Invalid             *)
(* signature"), and when ENCRYPTED is set and encrypted is empty ("Invalid *)
(* encrypted"); where several of these hold the error is that of the first *)
(* in this order.  So a message with both flags set is encoded only with   *)
(* signature and encrypted both non-empty.                                 *)
C7_EncodePreconditions ==
    \A k \in 1..Len(hist) :
        hist[k].name = "getBuffer" =>
            /\ EncodeFailure(Before(k)) # "" => hist[k].err = EncodeFailure(Before(k))
            /\ (Before(k).from = <<>>
                \/ (SignedSet(Before(k)) /\ Before(k).signature = <<>>)
                \/ (EncryptedSet(Before(k)) /\ Before(k).encrypted = <<>>))
                   => hist[k].err # ""
            /\ hist[k].err # "" => WireAfter(k) = hist[k].wire
            /\ (hist[k].err = "" /\ SignedSet(Before(k)) /\ EncryptedSet(Before(k)))
                   => Before(k).signature # <<>> /\ Before(k).encrypted # <<>>

C7_Witness ==
    \E k \in 1..Len(hist) :
        /\ hist[k].name = "getBuffer" /\ hist[k].err = "Invalid signature"
        /\ EncryptedSet(Before(k)) /\ Before(k).encrypted = <<>>
        /\ k + 2 <= Len(hist)
        /\ hist[k + 1].name = "sign" /\ hist[k + 1].err = ""
        /\ hist[k + 2].name = "getBuffer" /\ hist[k + 2].err = "Invalid encrypted"
        /\ wire = NoBuf

\* the number of buffers allocated after the k-th call
AllocatedAfter(k) == IF k = Len(hist) THEN Len(heap) ELSE hist[k + 1].allocated

\* the error a call with a wrong identity throws
IdentityError(name) ==
    CASE name = "sign"    -> "Invalid identity to sign with"
      [] name = "verify"  -> "Invalid identity to verify with"
      [] name = "encrypt" -> "Invalid identity to encrypt with"
      [] name = "decrypt" -> "Invalid identity to decrypt with"

\* the k-th call is one whose governing flag is set and whose identity is
\* absent or has another address than the field it must match
Misidentified(k) ==
    \/ /\ hist[k].name \in {"sign", "verify"} /\ SignedSet(Before(k))
       /\ ~Matches(hist[k].id, Before(k).from)
    \/ /\ hist[k].name \in {"encrypt", "decrypt"} /\ EncryptedSet(Before(k))
       /\ ~Matches(hist[k].id, Before(k).to)

(* C8: with the governing flag set, sign and verify with an identity that  *)
(* is absent or whose address differs from from, and encrypt and decrypt   *)
(* with one that is absent or whose address differs from to, throw the     *)
(* invalid-identity error of the call, leave every field of the message    *)
(* unchanged and allocate no buffer (no primitive of the identity has      *)
(* produced a result).                                                     *)
C8_IdentityPrecondition ==
    \A k \in 1..Len(hist) :
        Misidentified(k) =>
            /\ hist[k].err = IdentityError(hist[k].name)
            /\ After(k) = hist[k].before
            /\ AllocatedAfter(k) = hist[k].allocated

C8_Witness ==
    /\ \E k \in 1..Len(hist) :
          /\ Misidentified(k) /\ hist[k].name = "sign" /\ hist[k].id = Bob
          /\ Before(k).from = Alice.address
    /\ \E k \in 1..Len(hist) :
          Misidentified(k) /\ hist[k].name = "decrypt" /\ hist[k].id = NoIdentity
    /\ \E k \in 1..Len(hist) :
          /\ Misidentified(k) /\ hist[k].name = "encrypt" /\ hist[k].id = Alice
          /\ Before(k).to = Bob.address

(* C9: sign stores the identity's signature of encrypted when ENCRYPTED is *)
(* set and of payload otherwise.  With both flags set, encrypt then sign   *)
(* gives a message on which verify returns, and sign then an encrypt that  *)
(* changes encrypted gives one on which verify throws "Invalid signature". *)
C9_SignatureCoversActive ==
    \A k \in 1..Len(hist) :
        /\ (Proper(k, "sign", "from") /\ SignedSet(Before(k)))
              => Result(k).signature = IdSign(hist[k].id, Active(Before(k)))
        /\ ( /\ Proper(k, "encrypt", "to")
             /\ SignedSet(Before(k)) /\ EncryptedSet(Before(k))
             /\ k + 2 <= Len(hist)
             /\ Proper(k + 1, "sign", "from") /\ hist[k + 1].slot = hist[k].slot
             /\ hist[k + 2].name = "verify" /\ Then(k + 1, "verify") )
              => hist[k + 2].err = ""
        /\ ( /\ Proper(k, "sign", "from")
             /\ SignedSet(Before(k)) /\ EncryptedSet(Before(k))
             /\ k + 2 <= Len(hist)
             /\ Proper(k + 1, "encrypt", "to") /\ hist[k + 1].slot = hist[k].slot
             /\ Result(k + 1).encrypted # Before(k + 1).encrypted
             /\ hist[k + 2].name = "verify" /\ hist[k + 2].slot = hist[k].slot
             /\ hist[k + 2].id = hist[k].id )
              => hist[k + 2].err = "Invalid signature"

C9_Witness ==
    \E k \in 1..Len(hist) :
        /\ Proper(k, "sign", "from")
        /\ SignedSet(Before(k)) /\ EncryptedSet(Before(k))
        /\ Before(k).encrypted # <<>>
        /\ k + 2 <= Len(hist)
        /\ Proper(k + 1, "encrypt", "to")
        /\ Result(k + 1).encrypted # Before(k + 1).encrypted
        /\ hist[k + 2].name = "verify" /\ hist[k + 2].id = hist[k].id
        /\ hist[k + 2].err = "Invalid signature"

----------------------------------------------------------------------------
(* Properties of encoding and decoding (SpecCodec).                        *)

\* the k-th call is getBuffer on the constructed message and the next call
\* decodes the buffer it returned
EncodedThenDecoded(k) ==
    /\ hist[k].name = "getBuffer" /\ hist[k].slot = "m"
    /\ k + 1 <= Len(hist)
    /\ hist[k + 1].name = "fromBuffer"

(* C1: for a message with non-empty from and ENCRYPTED and SIGNED unset,   *)
(* getBuffer returns a buffer, and fromBuffer of it returns a message      *)
(* whose mode, ttl, from, to, command and payload are those of the         *)
(* message encoded: for every ttl, a 10-byte from, a to of 10 bytes or     *)
(* empty, every command (multi-byte characters included) and payload.      *)
C1_RoundTrip ==
    \A k \in 1..Len(hist) :
        ( /\ EncodedThenDecoded(k)
          /\ Before(k).from # <<>>
          /\ ~SignedSet(Before(k)) /\ ~EncryptedSet(Before(k)) )
            => /\ hist[k].err = "" /\ hist[k + 1].err = ""
               /\ \A f \in {"mode", "ttl", "from", "to", "command", "payload"} :
                     After(k + 1)["r"][f] = Before(k)[f]

\* the bytes of the wire buffer after the k-th call
WireBytes(k) == Read(heap, WireAfter(k))

\* the k-th call is a getBuffer that returned a buffer
Encoded(k) == hist[k].name = "getBuffer" /\ hist[k].err = ""

(* C14: for every message that passes getBuffer's checks, getBuffer        *)
(* returns a buffer of 88 + 1 + len(command) + len(active payload) bytes:  *)
(* the command's length in the byte at offset 88, the command's bytes      *)
(* after it, and the active payload in exactly the remaining bytes,        *)
(* whatever the length of the signature (empty, shorter or longer than 64  *)
(* bytes).                                                                 *)
C14_FrameShape ==
    \A k \in 1..Len(hist) :
        (hist[k].name = "getBuffer" /\ EncodeFailure(Before(k)) = "")
            => /\ hist[k].err = ""
               /\ LET cmd == Utf8Encode(Before(k).command)
                      w   == WireBytes(k)
                  IN  /\ Len(w) = HeaderLen + 1 + Len(cmd) + Len(Active(Before(k)))
                      /\ w[HeaderLen + 1] = Len(cmd)
                      /\ SubSeq(w, HeaderLen + 2, HeaderLen + 1 + Len(cmd)) = cmd
                      /\ Drop(w, HeaderLen + 1 + Len(cmd)) = Active(Before(k))

\* a message with a signature longer than 64 bytes, an empty command and an
\* empty active payload was encoded
C14_Witness ==
    \E k \in 1..Len(hist) :
        /\ Encoded(k)
        /\ Len(Before(k).signature) > SigLen
        /\ Before(k).command = <<>> /\ Active(Before(k)) = <<>>

\* a Message object with the fields' values v, and the heap of its buffers
ObjectOf(v) ==
    [h |-> <<v.payload, v.signature, v.encrypted>>,
     m |-> [v EXCEPT !.payload   = [base |-> 1, off |-> 0, len |-> Len(v.payload)],
                     !.signature = [base |-> 2, off |-> 0, len |-> Len(v.signature)],
                     !.encrypted = [base |-> 3, off |-> 0, len |-> Len(v.encrypted)]]]

\* what getBuffer does on a message with the fields' values v: the error it
\* throws, and the bytes it returns when it throws none
EncodingOf(v) ==
    LET o == ObjectOf(v)
        e == getBufferError(o.h, o.m)
    IN  [err |-> e, bytes |-> IF e = "" THEN getBufferBytes(o.h, o.m) ELSE <<>>]

\* the last call made is a getBuffer that returned a buffer
JustEncoded == nops > 0 /\ Encoded(nops)

\* values of seq to compare encodings over
OtherSeqs == {0, 65535}

(* C15: seq is not carried on the wire.  getBuffer writes mode into bytes  *)
(* 2..3, so whenever getBuffer has returned a buffer, a message that       *)
(* differs from the one encoded only in seq encodes to the same bytes; and *)
(* the message decoded from an encoded buffer has seq equal to the mode of *)
(* the message encoded, whatever its seq was.                              *)
C15_SeqNotCarried ==
    /\ JustEncoded
          => /\ \A seq \in OtherSeqs :
                   EncodingOf([Before(nops) EXCEPT !.seq = seq])
                       = [err |-> "", bytes |-> Read(heap, wire)]
             /\ Read(heap, wire)[3] + 256 * Read(heap, wire)[4] = Before(nops).mode
    /\ \A k \in 1..Len(hist) :
          (Encoded(k) /\ k < Len(hist) /\ hist[k + 1].name = "fromBuffer")
              => /\ hist[k + 1].err = ""
                 /\ After(k + 1)["r"].seq = Before(k).mode

\* a message with mode 3 and seq 513 was encoded and decoded to seq 3
C15_Witness ==
    \E k \in 1..Len(hist) :
        /\ Encoded(k) /\ Before(k).seq = 513 /\ Before(k).mode = 3
        /\ k < Len(hist) /\ hist[k + 1].name = "fromBuffer"
        /\ After(k + 1)["r"].seq = 3

\* the field getBuffer does not select
Inactive(v) == IF EncryptedSet(v) THEN "payload" ELSE "encrypted"

\* values of the inactive field to compare encodings over
OtherContents == {<<>>, <<9>>}

(* C16: the inactive field is not serialized.  Whenever getBuffer has      *)
(* returned a buffer, a message that agrees with the one encoded on mode,  *)
(* ttl, from, to, command, signature and the active field and differs in   *)
(* the inactive field (payload when ENCRYPTED is set, encrypted when it is *)
(* not) encodes to the same bytes.                                         *)
C16_InactiveNotSerialized ==
    JustEncoded
        => \A other \in OtherContents :
              EncodingOf([Before(nops) EXCEPT ![Inactive(Before(nops))] = other])
                  = [err |-> "", bytes |-> Read(heap, wire)]

\* a message with ENCRYPTED set and a payload that is not empty was encoded
C16_Witness ==
    \E k \in 1..Len(hist) :
        Encoded(k) /\ EncryptedSet(Before(k)) /\ Before(k).payload # <<>>

\* the k-th call is fromBuffer
Decoded(k) == hist[k].name = "fromBuffer"

\* the bytes of the buffer the k-th call, a fromBuffer, was given
Input(k) == Read(heap, hist[k].wire)

\* the buffer holds the header, the command's length byte and the bytes of
\* the command it announces
HoldsCommand(w) == Len(w) > HeaderLen /\ Len(w) >= HeaderLen + 1 + w[HeaderLen + 1]

(* C17: for every buffer that holds the full header and command,           *)
(* fromBuffer returns a message whose trailing bytes are the bytes from    *)
(* offset 88 + 1 + L to the end, L being the command's length byte (also   *)
(* for commands with multi-byte characters), stored in encrypted when the  *)
(* ENCRYPTED bit of the mode byte is set and in payload when it is not,    *)
(* the other of the two left empty.                                        *)
C17_DecodeRouting ==
    \A k \in 1..Len(hist) :
        (Decoded(k) /\ HoldsCommand(Input(k)))
            => /\ hist[k].err = ""
               /\ LET w    == Input(k)
                      rest == Drop(w, HeaderLen + 1 + w[HeaderLen + 1])
                      r    == After(k)["r"]
                  IN  IF w[1] % 2 = 1
                      THEN r.encrypted = rest /\ r.payload = <<>>
                      ELSE r.payload = rest /\ r.encrypted = <<>>

(* C18: fromBuffer throws and returns no Message for every buffer shorter  *)
(* than the 88-byte header and for every buffer whose command length byte  *)
(* announces more bytes than remain.                                       *)
C18_MalformedRejected ==
    \A k \in 1..Len(hist) :
        (Decoded(k) /\ ~HoldsCommand(Input(k)) /\ Len(Input(k)) # HeaderLen)
            => hist[k].err # "" /\ After(k)["r"] = hist[k].before["r"]

(* C19: for every buffer b that getBuffer returned (any mode, to of 10     *)
(* bytes or empty, any command, any signature), fromBuffer(b).getBuffer()  *)
(* returns a buffer with the bytes of b.                                   *)
C19_ReencodeStable ==
    \A k \in 1..Len(hist) :
        ( /\ Encoded(k) /\ k + 2 <= Len(hist)
          /\ Decoded(k + 1)
          /\ hist[k + 2].name = "getBuffer" /\ hist[k + 2].slot = "r" )
            => /\ hist[k + 1].err = "" /\ hist[k + 2].err = ""
               /\ WireBytes(k + 2) = WireBytes(k)

----------------------------------------------------------------------------
(* Properties of the send/receive task (SpecPipeline).                     *)

(* C2: for each mode, encrypt(recipient), sign(sender), getBuffer, then    *)
(* fromBuffer, verify(sender), decrypt(recipient) complete without an      *)
(* error, and the received message's payload is the payload the sender     *)
(* started with.                                                           *)
C2_SingleSequence ==
    /\ pc # "failed"
    /\ pc = "done" => Now["r"].payload = made.payload

----------------------------------------------------------------------------
(* Properties of clones (SpecClone).                                       *)

\* the other of the two objects
Other(s) == IF s = "m" THEN "c" ELSE "m"

(* C10: after c = m.clone(), no call, assignment or in-place write made on *)
(* one of the two objects changes the value of any field of the other.     *)
C10_CloneIndependent ==
    \A k \in 1..Len(hist) :
        (hist[k].slot \in Owners /\ hist[k].before["c"] # NoMsg)
            => After(k)[Other(hist[k].slot)] = hist[k].before[Other(hist[k].slot)]

----------------------------------------------------------------------------
(* Properties of the calls on a peer (SpecPeer).                           *)

PeerCalls == 1..Len(peer.calls)

\* the Peer object after call k
PeerAfter(k) == IF k = Len(peer.calls) THEN peer.obj ELSE peer.calls[k + 1].before

\* url begins with the dialer's proto followed by a colon
Eligible(url, node) ==
    \E d \in 1..Len(node.dialers) :
        LET proto == node.dialers[d].proto
        IN  /\ Len(url) > Len(proto)
            /\ \A j \in 1..Len(proto) : url[j] = proto[j]
            /\ url[Len(proto) + 1] = ":"

\* the positions of the eligible urls
EligibleAt(urls, node) == {i \in 1..Len(urls) : Eligible(urls[i], node)}

\* the j-th smallest member of a set of positions
Nth(positions, j) ==
    CHOOSE i \in positions : Cardinality({x \in positions : x <= i}) = j

\* result holds exactly the eligible urls, in the order of urls
FilteredInOrder(result, urls, node) ==
    /\ Len(result) = Cardinality(EligibleAt(urls, node))
    /\ \A j \in 1..Len(result) : result[j] = urls[Nth(EligibleAt(urls, node), j)]

\* the update calls made so far
Updates == {k \in PeerCalls : peer.calls[k].name = "update"}

\* C11: constructing a Peer with an address other than the one derived from
\* its public key fails with the mismatch error and yields no Peer; every
\* Peer that exists has the address derived from its public key, also after
\* any sequence of update calls.
C11_AddressMatchesKey ==
    /\ \A k \in PeerCalls :
          (peer.calls[k].name = "new"
             /\ peer.calls[k].arg.address # DeriveAddress(peer.calls[k].arg.pubKey))
          => (peer.calls[k].err = "Mismatch address" /\ PeerAfter(k) = NoPeer)
    /\ \A k \in PeerCalls :
          PeerAfter(k) # NoPeer
          => PeerAfter(k).address = DeriveAddress(PeerAfter(k).pubKey)

\* a construction with an address that belongs to the other key was refused
C11_Witness ==
    /\ Len(peer.calls) >= 1
    /\ peer.calls[1].arg.address = DeriveAddress(2)
    /\ peer.calls[1].arg.pubKey = 1
    /\ peer.calls[1].err = "Mismatch address"
    /\ peer.obj = NoPeer

\* C12: getEligibleUrls(node) returns exactly the entries of urls, in their
\* order, that begin with "<proto>:" for the proto of at least one dialer of
\* node (a dialer "ws" does not make "wss:..." eligible), the empty list when
\* none does, and changes no field of the peer.
C12_EligibleUrlsFilter ==
    \A k \in PeerCalls :
        peer.calls[k].name = "getEligibleUrls"
        => /\ peer.calls[k].err = ""
           /\ FilteredInOrder(peer.calls[k].result, peer.calls[k].before.urls,
                              peer.calls[k].arg)
           /\ PeerAfter(k) = peer.calls[k].before

\* a node that dials only "ws" got the "ws:" url and not the "wss:" url
C12_Witness ==
    \E k \in PeerCalls :
        /\ peer.calls[k].name = "getEligibleUrls"
        /\ peer.calls[k].arg = [dialers |-> <<[proto |-> Ws]>>]
        /\ peer.calls[k].before.urls = <<UrlWss, UrlTcp, UrlWs, UrlTcp>>
        /\ peer.calls[k].result = <<UrlWs>>

\* C13: after update({urls: U, timestamp: T}) the peer's urls are U and its
\* timestamp is T, whatever they were before and also when T is older;
\* address, pubKey and networkId are unchanged; after any sequence of calls
\* the urls and timestamp are those of the last update.
C13_UpdateReplaces ==
    /\ \A k \in Updates :
          /\ peer.calls[k].err = ""
          /\ PeerAfter(k).urls = peer.calls[k].arg.urls
          /\ PeerAfter(k).timestamp.time = peer.calls[k].arg.timestamp
          /\ PeerAfter(k).address = peer.calls[k].before.address
          /\ PeerAfter(k).pubKey = peer.calls[k].before.pubKey
          /\ PeerAfter(k).networkId = peer.calls[k].before.networkId
    /\ Updates # {}
          => LET last == CHOOSE k \in Updates : \A j \in Updates : j <= k
             IN  /\ peer.obj.urls = peer.calls[last].arg.urls
                 /\ peer.obj.timestamp.time = peer.calls[last].arg.timestamp

\* an update with an older timestamp and other urls followed a newer one
C13_Witness ==
    \E k \in Updates :
        /\ k + 1 \in Updates
        /\ peer.calls[k + 1].arg.timestamp < peer.calls[k].arg.timestamp
        /\ peer.calls[k + 1].arg.urls # peer.calls[k].arg.urls
        /\ k + 1 < Len(peer.calls)
        /\ peer.obj.timestamp.time = peer.calls[k + 1].arg.timestamp

============================================================================
